---- MODULE Spec2Model ----
(***************************************************************************)
(* A model of na_gribtools/icon/db.py (class ICONDatabase): the resource   *)
(* locator (__getURL, __getDatasetFilename), the time resolver             *)
(* (__getDownloadTimeInfo, downloadForecastFromNow), the fetch             *)
(* orchestrator (downloadForecastFromRuntime, __downloadAndCompile), the   *)
(* archive index (listDatabase) and the retention janitor (cleanUp).       *)
(*                                                                         *)
(* Strings are sequences of one-character strings, so that formatting,     *)
(* suffix tests and regular-expression searches are computed, not assumed. *)
(* An instant is a number of minutes since 0001-01-01T00:00 (UTC).         *)
(***************************************************************************)
EXTENDS Integers, Sequences, FiniteSets, TLC

VARIABLES
    now,      \* the wall clock (datetime.datetime.utcnow()), an instant
    ticks,    \* how often the clock has advanced
    config,   \* the configuration object handed to __init__
    loc,      \* the last call of the resource locator and its result
    fetch,    \* the fetch operation in progress: its position and locals
    calls,    \* the invocations of the download/compile collaborator
    files,    \* the directory: name -> [kind, ino, partial]
    inodes,   \* the next inode the file system hands out
    jan,      \* the cleanUp in progress: its position and delList
    listing   \* the last result of listDatabase

vars == <<now, ticks, config, loc, fetch, calls, files, inodes, jan, listing>>

----------------------------------------------------------------------------
(* Characters and Python's string operations.                               *)

DigitChars == <<"0","1","2","3","4","5","6","7","8","9">>

LowerChars == <<"a","b","c","d","e","f","g","h","i","j","k","l","m","n","o","p","q","r","s","t","u","v","w","x","y","z">>

UpperChars == <<"A","B","C","D","E","F","G","H","I","J","K","L","M","N","O","P","Q","R","S","T","U","V","W","X","Y","Z">>

IsDigit(c) == \E i \in 1..10 : DigitChars[i] = c

DigitValue(c) == (CHOOSE i \in 1..10 : DigitChars[i] = c) - 1

\* str.upper() and str.lower(), one character at a time.
UpperChar(c) ==
    IF \E i \in 1..26 : LowerChars[i] = c
    THEN UpperChars[CHOOSE i \in 1..26 : LowerChars[i] = c]
    ELSE c

LowerChar(c) ==
    IF \E i \in 1..26 : UpperChars[i] = c
    THEN LowerChars[CHOOSE i \in 1..26 : UpperChars[i] = c]
    ELSE c

StrUpper(s) == [i \in 1..Len(s) |-> UpperChar(s[i])]

StrLower(s) == [i \in 1..Len(s) |-> LowerChar(s[i])]

\* The decimal digits of n >= 0, most significant first.
RECURSIVE DecDigits(_)
DecDigits(n) ==
    IF n < 10 THEN <<DigitChars[n + 1]>>
    ELSE DecDigits(n \div 10) \o <<DigitChars[(n % 10) + 1]>>

RECURSIVE PadLeft(_, _, _)
PadLeft(s, width, c) == IF Len(s) >= width THEN s ELSE PadLeft(<<c>> \o s, width, c)

\* "%0<width>d" % n: the sign comes first and counts towards the width.
FormatZeroPadded(n, width) ==
    IF n < 0 THEN <<"-">> \o PadLeft(DecDigits(-n), width - 1, "0")
    ELSE PadLeft(DecDigits(n), width, "0")

\* "%<width>d" % n: padded with spaces.
FormatSpacePadded(n, width) ==
    IF n < 0 THEN PadLeft(<<"-">> \o DecDigits(-n), width, " ")
    ELSE PadLeft(DecDigits(n), width, " ")

\* s.endswith(suffix)
EndsWith(s, suffix) ==
    /\ Len(s) >= Len(suffix)
    /\ SubSeq(s, Len(s) - Len(suffix) + 1, Len(s)) = suffix

\* s[-2:]
LastTwo(s) == IF Len(s) <= 2 THEN s ELSE SubSeq(s, Len(s) - 1, Len(s))

\* The text at position i of s starts with t.
StartsAt(s, i, t) == /\ i + Len(t) - 1 <= Len(s)
                     /\ SubSeq(s, i, i + Len(t) - 1) = t

\* The n characters of s from position i are all decimal digits.
DigitsAt(s, i, n) == /\ i + n - 1 <= Len(s)
                     /\ \A k \in i..(i + n - 1) : IsDigit(s[k])

----------------------------------------------------------------------------
(* datetime: the proleptic Gregorian calendar, as CPython computes it.      *)

IsLeap(y) == (y % 4 = 0) /\ ((y % 100 # 0) \/ (y % 400 = 0))

DaysInMonth(y, m) ==
    IF m = 2 THEN (IF IsLeap(y) THEN 29 ELSE 28)
    ELSE IF m \in {4, 6, 9, 11} THEN 30 ELSE 31

DaysBeforeYear(y) ==
    (y - 1) * 365 + ((y - 1) \div 4) - ((y - 1) \div 100) + ((y - 1) \div 400)

RECURSIVE DaysBeforeMonth(_, _)
DaysBeforeMonth(y, m) ==
    IF m = 1 THEN 0 ELSE DaysBeforeMonth(y, m - 1) + DaysInMonth(y, m - 1)

\* datetime.datetime(year, month, day, hour) raises ValueError on a field
\* out of range.
ValidDate(y, m, d, h) ==
    /\ y \in 1..9999
    /\ m \in 1..12
    /\ d >= 1 /\ d <= DaysInMonth(y, m)
    /\ h \in 0..23

\* datetime.datetime(year, month, day, hour), as an instant.
MakeDatetime(y, m, d, h) ==
    ((DaysBeforeYear(y) + DaysBeforeMonth(y, m) + (d - 1)) * 24 + h) * 60

\* The fields of an instant (the ordinal is split by 400-, 100-, 4- and
\* 1-year cycles).
FieldsOf(t) ==
    LET n0   == t \div 1440
        n400 == n0 \div 146097
        r400 == n0 % 146097
        n100 == r400 \div 36524
        r100 == r400 % 36524
        n4   == r100 \div 1461
        r4   == r100 % 1461
        n1   == r4 \div 365
        r1   == r4 % 365
        y0   == n400 * 400 + 1 + n100 * 100 + n4 * 4 + n1
        m0   == (r1 + 50) \div 32
        pre0 == DaysBeforeMonth(y0, m0)
        mm   == IF pre0 > r1 THEN m0 - 1 ELSE m0
        pre  == DaysBeforeMonth(y0, mm)
    IN  IF n1 = 4 \/ n100 = 4
        THEN [year |-> y0 - 1, month |-> 12, day |-> 31,
              hour |-> (t \div 60) % 24, minute |-> t % 60]
        ELSE [year |-> y0, month |-> mm, day |-> r1 - pre + 1,
              hour |-> (t \div 60) % 24, minute |-> t % 60]

\* datetime.timedelta(hours=n), in minutes.
HoursDelta(n) == n * 60

----------------------------------------------------------------------------
(* The variable catalog (ICON_VARIABLES of variables.py): identifier ->     *)
(* (name, vertical level, band).                                            *)

ICON_VARIABLES ==
    [ t_2m |-> [name  |-> <<"t","_","2","m">>,
                level |-> <<"s","i","n","g","l","e","-","l","e","v","e","l">>,
                band  |-> 1],
      T    |-> [name  |-> <<"T">>,
                level |-> <<"p","r","e","s","s","u","r","e","-","l","e","v","e","l">>,
                band  |-> 2] ]

CatalogIDs == DOMAIN ICON_VARIABLES

\* An identifier that is not in the catalog.
UnknownID == "nope"

----------------------------------------------------------------------------
(* Results of the operations: a value, or the exception that was raised.    *)

Ok(v) == [ok |-> TRUE, val |-> v, err |-> ""]

Raise(e) == [ok |-> FALSE, val |-> <<>>, err |-> e]

\* A forecast-hour argument: Python values carry their type.
IntHours(n) == [t |-> "int", v |-> n]

FloatHours(n) == [t |-> "float", v |-> n]

----------------------------------------------------------------------------
(* Resource locator.                                                        *)

\* __getDatasetFilename: no validation of hours; "%03d" formats any number
\* (a float is truncated, here floats hold whole values).
GetDatasetFilename(variableID, timeIdentifier, hours, ending) ==
    IF variableID \notin CatalogIDs THEN Raise("KeyError")
    ELSE Ok(<<"I","C","O","N","_","i","k","o","_">>
            \o ICON_VARIABLES[variableID].level
            \o <<"_","e","l","e","m","e","n","t","s","_","w","o","r","l","d","_">>
            \o StrUpper(ICON_VARIABLES[variableID].name)
            \o <<"_">> \o timeIdentifier
            \o <<"_">> \o FormatZeroPadded(hours.v, 3)
            \o ending)

\* A validation that demands the 3-hour step only above 87.
HoursStepOkAbove87(hours) == hours.v > 87 => hours.v % 3 = 0

\* if hours > 78: assert hours % 3 == 0
HoursStepOk(hours) == hours.v > 78 => hours.v % 3 = 0

\* assert type(hours) == int and hours >= 0 and hours <= 180
HoursRangeOk(hours) == hours.t = "int" /\ hours.v >= 0 /\ hours.v <= 180

URL_BASE == <<"h","t","t","p","s",":","/","/","o","p","e","n","d","a","t","a",".","d","w","d",".","d","e","/","w","e","a","t","h","e","r","/","i","c","o","n","/","g","l","o","b","a","l","/","g","r","i","b","/">>

GRIB2_BZ2 == <<".","g","r","i","b","2",".","b","z","2">>

\* __getURL
GetURL(variableID, timeIdentifier, hours) ==
    IF variableID \notin CatalogIDs THEN Raise("AssertionError")
    ELSE IF ~(HoursRangeOk(hours) /\ HoursStepOk(hours))
    THEN Raise("Invalid forecast hour.")
    ELSE Ok(URL_BASE
            \o LastTwo(timeIdentifier) \o <<"/">>
            \o StrLower(ICON_VARIABLES[variableID].name) \o <<"/">>
            \o GetDatasetFilename(variableID, timeIdentifier, hours, GRIB2_BZ2).val)

\* One call of the resource locator.
BuildURL(variableID, timeIdentifier, hours) ==
    /\ loc.op = "none"
    /\ loc' = [op |-> "url", var |-> variableID, run |-> timeIdentifier,
               hours |-> hours,
               out |-> GetURL(variableID, timeIdentifier, hours)]
    /\ UNCHANGED <<now, ticks, config, fetch, calls, files, inodes, jan, listing>>

BuildFilename(variableID, timeIdentifier, hours) ==
    /\ loc.op = "none"
    /\ loc' = [op |-> "filename", var |-> variableID, run |-> timeIdentifier,
               hours |-> hours,
               out |-> GetDatasetFilename(variableID, timeIdentifier, hours,
                                          GRIB2_BZ2)]
    /\ UNCHANGED <<now, ticks, config, fetch, calls, files, inodes, jan, listing>>

----------------------------------------------------------------------------
(* Time resolver.                                                           *)

\* DATASET_DELAY = datetime.timedelta(hours=3)
DATASET_DELAY == 3

\* A resolver that takes the date of the clock and not of the delayed
\* instant: the run of the evening falls on the wrong day after midnight.
GetDownloadTimeInfoDateOfNow(t) ==
    LET lastTime     == t - HoursDelta(DATASET_DELAY)
        f            == FieldsOf(t)
        downloadHour == (FieldsOf(lastTime).hour \div 6) * 6
    IN  [id   |-> FormatSpacePadded(f.year, 4) \o FormatZeroPadded(f.month, 2)
                  \o FormatZeroPadded(f.day, 2)
                  \o FormatZeroPadded(downloadHour, 2),
         time |-> MakeDatetime(f.year, f.month, f.day, downloadHour)]

\* A resolver that forgets the publication delay.
GetDownloadTimeInfoNoDelay(t) ==
    LET f            == FieldsOf(t)
        downloadHour == (f.hour \div 6) * 6
    IN  [id   |-> FormatSpacePadded(f.year, 4) \o FormatZeroPadded(f.month, 2)
                  \o FormatZeroPadded(f.day, 2)
                  \o FormatZeroPadded(downloadHour, 2),
         time |-> MakeDatetime(f.year, f.month, f.day, downloadHour)]

\* __getDownloadTimeInfo, the clock reading t: (identifier, downloadTime)
GetDownloadTimeInfo(t) ==
    LET lastTime     == t - HoursDelta(DATASET_DELAY)
        f            == FieldsOf(lastTime)
        downloadHour == (f.hour \div 6) * 6
    IN  [id   |-> FormatSpacePadded(f.year, 4) \o FormatZeroPadded(f.month, 2)
                  \o FormatZeroPadded(f.day, 2)
                  \o FormatZeroPadded(downloadHour, 2),
         time |-> MakeDatetime(f.year, f.month, f.day, downloadHour)]

\* int(x / 3600.0) of a difference given in minutes: truncation towards 0.
WholeHours(minutes) ==
    IF minutes >= 0 THEN minutes \div 60 ELSE -((-minutes) \div 60)

\* A quantization that forgets the clamp at 180.
QuantizeUnclamped(forecastDiff) ==
    IF forecastDiff > 78 THEN (forecastDiff \div 3) * 3 ELSE forecastDiff

\* A quantization that rounds to the nearest multiple of 3.
QuantizeNearest(forecastDiff) ==
    LET stepped == IF forecastDiff > 78
                   THEN ((forecastDiff + 1) \div 3) * 3
                   ELSE forecastDiff
    IN  IF stepped > 180 THEN 180 ELSE stepped

\* Lines 124-127 of downloadForecastFromNow: the 3-hour step above 78 and
\* the clamp at 180.
Quantize(forecastDiff) ==
    LET stepped == IF forecastDiff > 78
                   THEN (forecastDiff \div 3) * 3
                   ELSE forecastDiff
    IN  IF stepped > 180 THEN 180 ELSE stepped

----------------------------------------------------------------------------
(* The directory.                                                           *)

Put(dir, name, entry) ==
    [n \in (DOMAIN dir) \cup {name} |-> IF n = name THEN entry ELSE dir[n]]

Remove(dir, names) == [n \in (DOMAIN dir) \ names |-> dir[n]]

RegularFile(ino, partial) == [kind |-> "file", ino |-> ino, partial |-> partial]

Directory(ino) == [kind |-> "dir", ino |-> ino, partial |-> FALSE]

FORECAST_DASH == <<"f","o","r","e","c","a","s","t","-">>

ICONDB == <<".","i","c","o","n","d","b">>

ICONDB_TEMP == <<".","i","c","o","n","d","b",".","t","e","m","p">>

ICONDB_CHECKSUM == <<".","i","c","o","n","d","b",".","c","h","e","c","k","s","u","m">>

GRB2 == <<".","g","r","b","2">>

GRIB2 == <<".","g","r","i","b","2">>

\* getICONDBPath(tempDir, timestamp) of dbcache.py: the archive of a run.
GetICONDBPath(timeIdentifier) == FORECAST_DASH \o timeIdentifier \o ICONDB

\* The name the collaborator writes the archive under before it renames it.
TempPath(timeIdentifier) == FORECAST_DASH \o timeIdentifier \o ICONDB_TEMP

----------------------------------------------------------------------------
(* Fetch orchestrator.                                                      *)

MaxFetches == 2

IdleFetch(n) ==
    [pc |-> "idle", kind |-> "none", arg |-> IntHours(0), readTime |-> 0,
     timeIdentifier |-> <<>>, downloadTime |-> 0, nowTime |-> 0,
     forecastDiff |-> 0, hours |-> IntHours(0), result |-> Raise(""), n |-> n]

\* The loop of __downloadAndCompile: the URL of every catalog variable, or
\* the exception __getURL raised.
DownloadURLs(timeIdentifier, hours) ==
    LET built == [v \in CatalogIDs |-> GetURL(v, timeIdentifier, hours)]
    IN  IF \E v \in CatalogIDs : ~built[v].ok
        THEN Raise(built[CHOOSE v \in CatalogIDs : ~built[v].ok].err)
        ELSE Ok([v \in CatalogIDs |-> built[v].val])

\* __downloadAndCompile up to the call of the collaborator, f holding the
\* caller's locals.
DownloadAndCompile(f, timeIdentifier, hours) ==
    LET urls == DownloadURLs(timeIdentifier, hours)
    IN  IF urls.ok
        THEN /\ fetch' = [f EXCEPT !.pc = "collab", !.hours = hours]
             /\ calls' = Append(calls,
                    [timeIdentifier |-> timeIdentifier, hours |-> hours,
                     downloadURLs |-> urls.val,
                     checksumKey |-> config.checksumKey])
        ELSE /\ fetch' = [f EXCEPT !.pc = "done", !.hours = hours,
                                   !.result = Raise(urls.err)]
             /\ calls' = calls

\* A validator that lets the hour 0 through.
RuntimeHoursOkFrom0(h) ==
    /\ h.t = "int"
    /\ h.v \in 0..180
    /\ (h.v > 78 => h.v % 3 = 0)

\* The assertions of downloadForecastFromRuntime.
RuntimeHoursOk(h) ==
    /\ h.t = "int"
    /\ h.v \in 1..180
    /\ (h.v > 78 => h.v % 3 = 0)

\* downloadForecastFromRuntime(forecastHoursFromRuntime), up to the call of
\* the collaborator.
DownloadForecastFromRuntime(h) ==
    /\ fetch.pc = "idle"
    /\ fetch.n < MaxFetches
    /\ LET info == GetDownloadTimeInfo(now)
           f    == [IdleFetch(fetch.n + 1) EXCEPT
                        !.kind = "runtime", !.arg = h, !.readTime = now,
                        !.timeIdentifier = info.id,
                        !.downloadTime = info.time]
       IN  IF RuntimeHoursOk(h)
           THEN DownloadAndCompile(f, info.id, h)
           ELSE /\ fetch' = [f EXCEPT !.pc = "done",
                               !.result = Raise("Requested forecast hour invalid.")]
                /\ calls' = calls
    /\ UNCHANGED <<now, ticks, config, loc, files, inodes, jan, listing>>

\* downloadForecastFromNow(forecastHoursFromNow), line 115: the first reading
\* of the clock, inside __getDownloadTimeInfo.
FromNowReadRun(lead) ==
    /\ fetch.pc = "idle"
    /\ fetch.n < MaxFetches
    /\ LET info == GetDownloadTimeInfo(now)
       IN  fetch' = [IdleFetch(fetch.n + 1) EXCEPT
                        !.pc = "gotRun", !.kind = "now", !.arg = IntHours(lead),
                        !.readTime = now, !.timeIdentifier = info.id,
                        !.downloadTime = info.time]
    /\ UNCHANGED <<now, ticks, config, loc, calls, files, inodes, jan, listing>>

\* downloadForecastFromNow, lines 117-129: the second reading of the clock,
\* the horizon, and __downloadAndCompile up to the call of the collaborator.
FromNowResolve ==
    /\ fetch.pc = "gotRun"
    /\ LET nowTime        == now
           n              == FieldsOf(nowTime)
           roundedNowTime == MakeDatetime(n.year, n.month, n.day, n.hour)
           forecastTime   == roundedNowTime + HoursDelta(fetch.arg.v)
           forecastDiff   == WholeHours(forecastTime - fetch.downloadTime)
           f == [fetch EXCEPT !.nowTime = nowTime, !.forecastDiff = forecastDiff]
       IN  DownloadAndCompile(f, fetch.timeIdentifier,
                              IntHours(Quantize(forecastDiff)))
    /\ UNCHANGED <<now, ticks, config, loc, files, inodes, jan, listing>>

(* The download/compile collaborator (downloadAndCompile of dbcache.py): it *)
(* writes the archive under a temporary name and renames it into place, or  *)
(* fails; what it returns or raises is what the operation returns.          *)

CollabWriteTemp ==
    /\ fetch.pc = "collab"
    /\ files' = Put(files, TempPath(fetch.timeIdentifier),
                    RegularFile(inodes, TRUE))
    /\ inodes' = inodes + 1
    /\ fetch' = [fetch EXCEPT !.pc = "wrote"]
    /\ UNCHANGED <<now, ticks, config, loc, calls, jan, listing>>

CollabRename ==
    /\ fetch.pc = "wrote"
    /\ LET temp == TempPath(fetch.timeIdentifier)
           path == GetICONDBPath(fetch.timeIdentifier)
       IN  IF temp \in DOMAIN files
           THEN /\ files' = Put(Remove(files, {temp}), path,
                                RegularFile(files[temp].ino, FALSE))
                /\ fetch' = [fetch EXCEPT !.pc = "done", !.result = Ok(path)]
           ELSE /\ files' = files
                /\ fetch' = [fetch EXCEPT !.pc = "done",
                                !.result = Raise("DownloadOrCompileFailure")]
    /\ UNCHANGED <<now, ticks, config, loc, calls, inodes, jan, listing>>

CollabFail ==
    /\ fetch.pc \in {"collab", "wrote"}
    /\ fetch' = [fetch EXCEPT !.pc = "done",
                              !.result = Raise("DownloadOrCompileFailure")]
    /\ files' = Remove(files, {TempPath(fetch.timeIdentifier)})
    /\ UNCHANGED <<now, ticks, config, loc, calls, inodes, jan, listing>>

\* The operation has returned; the next one may start.
FetchReturn ==
    /\ fetch.pc = "done"
    /\ fetch.n < MaxFetches
    /\ fetch' = IdleFetch(fetch.n)
    /\ calls' = <<>>
    /\ UNCHANGED <<now, ticks, config, loc, files, inodes, jan, listing>>

----------------------------------------------------------------------------
(* The clock.                                                               *)

TickMinutes == 90

TickUpTo(bound) ==
    /\ ticks < bound
    /\ now' = now + TickMinutes
    /\ ticks' = ticks + 1
    /\ UNCHANGED <<config, loc, fetch, calls, files, inodes, jan, listing>>

IdleJan == [pc |-> "idle", delList |-> <<{}, {}>>, scanInodes |-> 0]

DefaultConfig == [archiveLife |-> 24, checksumKey |-> "key"]

----------------------------------------------------------------------------
(* The resource locator on its own.                                         *)

HoursBelowZero == 2

MaxHours == 183

HoursInputs ==
    {IntHours(n) : n \in (-HoursBelowZero)..MaxHours} \cup {FloatHours(6), FloatHours(81)}

\* Run identifiers handed to the locator.
RunInputs == {GetDownloadTimeInfo(MakeDatetime(2024, 1, 1, 3)).id,
              GetDownloadTimeInfo(MakeDatetime(2017, 12, 3, 21)).id}

InitLocator ==
    /\ now = MakeDatetime(2024, 1, 1, 3)
    /\ ticks = 0
    /\ config = DefaultConfig
    /\ loc = [op |-> "none", var |-> UnknownID, run |-> <<>>,
              hours |-> IntHours(0), out |-> Raise("")]
    /\ fetch = IdleFetch(0)
    /\ calls = <<>>
    /\ files = <<>>
    /\ inodes = 1
    /\ jan = IdleJan
    /\ listing = <<>>

NextLocator ==
    \/ \E v \in CatalogIDs \cup {UnknownID}, r \in RunInputs, h \in HoursInputs :
          BuildURL(v, r, h)
    \/ \E v \in CatalogIDs \cup {UnknownID}, r \in RunInputs, h \in HoursInputs :
          BuildFilename(v, r, h)

SpecLocator == InitLocator /\ [][NextLocator]_vars

\* The horizons the documentation of __getURL accepts.
ValidHorizon(h) ==
    h.t = "int" /\ h.v >= 0 /\ h.v <= 180 /\ (h.v <= 78 \/ h.v % 3 = 0)

\* C1, as stated: for every catalog variable and run identifier, buildURL
\* and buildFilename each succeed exactly when the horizon is an integer h
\* with 0 <= h <= 180 and (h <= 78 or h mod 3 = 0).
C1_BothValidate ==
    (loc.op \in {"url", "filename"} /\ loc.var \in CatalogIDs)
        => (loc.out.ok <=> ValidHorizon(loc.hours))

\* C1, amended: buildURL succeeds exactly on the valid horizons and fails
\* with "Invalid forecast hour." on the others; buildFilename validates
\* nothing and succeeds on every integer horizon, formatting it with at
\* least 3 characters.
C1_OnlyURLValidates ==
    /\ (loc.op = "url" /\ loc.var \in CatalogIDs)
          => /\ loc.out.ok <=> ValidHorizon(loc.hours)
             /\ ~loc.out.ok => loc.out.err = "Invalid forecast hour."
    /\ (loc.op = "filename" /\ loc.var \in CatalogIDs /\ loc.hours.t = "int")
          => /\ loc.out.ok
             /\ EndsWith(loc.out.val, GRIB2_BZ2)

\* buildFilename has succeeded on a horizon of the 3-hour zone that is no
\* multiple of 3, and buildURL has failed on one.
C1_Witness ==
    /\ loc.var \in CatalogIDs
    /\ loc.hours.t = "int" /\ loc.hours.v > 78 /\ loc.hours.v <= 180
    /\ loc.hours.v % 3 # 0
    /\ loc.op = "filename"
    /\ loc.out.ok

----------------------------------------------------------------------------
(* One fetch operation, the clock running while it resolves the run and the *)
(* horizon.                                                                 *)

MaxTicks == 5

MaxLead == 182

\* The clock starts before a year end, before the end of a February with
\* and without a leap day, and on an ordinary day.
StartInstants ==
    {MakeDatetime(2023, 12, 31, 21), MakeDatetime(2024, 2, 29, 21),
     MakeDatetime(2023, 2, 28, 21), MakeDatetime(2024, 6, 15, 8) + 59}

InitFetch ==
    /\ now \in StartInstants
    /\ ticks = 0
    /\ config = DefaultConfig
    /\ loc = [op |-> "none", var |-> UnknownID, run |-> <<>>,
              hours |-> IntHours(0), out |-> Raise("")]
    /\ fetch = IdleFetch(0)
    /\ calls = <<>>
    /\ files = <<>>
    /\ inodes = 1
    /\ jan = IdleJan
    /\ listing = <<>>

\* The clock is followed up to the operation's last reading of it.
TickFetch == fetch.pc \in {"idle", "gotRun"} /\ TickUpTo(MaxTicks)

NextFetch ==
    \/ TickFetch
    \/ \E h \in HoursInputs : DownloadForecastFromRuntime(h)
    \/ \E lead \in 0..MaxLead : FromNowReadRun(lead)
    \/ FromNowResolve
    \/ CollabWriteTemp
    \/ CollabRename
    \/ CollabFail

SpecFetch == InitFetch /\ [][NextFetch]_vars

\* The number the n digits of s from position i spell.
RECURSIVE NumberAt(_, _, _)
NumberAt(s, i, n) ==
    IF n = 0 THEN 0
    ELSE NumberAt(s, i, n - 1) * 10 + DigitValue(s[i + n - 1])

HourFloor(t) == t - (t % 60)

\* C2: the run instant R that __getDownloadTimeInfo returns for the clock
\* reading t lies on a 6-hour boundary (00, 06, 12 or 18 h), R <= t - 3h and
\* t - 3h - R < 6h, also across a midnight, a month end and a year end; the
\* identifier is ten digits that spell the year, month, day and hour of R.
C2_RunIsLatestBoundary ==
    fetch.kind # "none" =>
        LET R  == fetch.downloadTime
            t  == fetch.readTime
            id == fetch.timeIdentifier
        IN  /\ R % 60 = 0
            /\ (R \div 60) % 24 \in {0, 6, 12, 18}
            /\ R <= t - 180
            /\ (t - 180) - R < 360
            /\ Len(id) = 10
            /\ \A i \in 1..10 : IsDigit(id[i])
            /\ ValidDate(NumberAt(id, 1, 4), NumberAt(id, 5, 2),
                         NumberAt(id, 7, 2), NumberAt(id, 9, 2))
            /\ MakeDatetime(NumberAt(id, 1, 4), NumberAt(id, 5, 2),
                            NumberAt(id, 7, 2), NumberAt(id, 9, 2)) = R

\* The clock was read after midnight of a new year, and the run is the one
\* of 18 h of the year before.
C2_Witness ==
    /\ fetch.kind # "none"
    /\ FieldsOf(fetch.readTime).year = 2024
    /\ FieldsOf(fetch.readTime).month = 1
    /\ FieldsOf(fetch.downloadTime).year = 2023
    /\ FieldsOf(fetch.downloadTime).hour = 18

\* downloadForecastFromNow has passed its second reading of the clock.
Resolved == fetch.kind = "now" /\ fetch.pc \notin {"idle", "gotRun"}

\* The whole hours between the run handed on and the target instant, the
\* hour floor of the clock plus the lead.
HoursToTarget ==
    ((HourFloor(fetch.nowTime) + fetch.arg.v * 60) - fetch.downloadTime) \div 60

\* C3: the horizon e that downloadForecastFromNow hands to
\* __downloadAndCompile satisfies 0 <= e <= 180 and (e > 78 => e mod 3 = 0)
\* and passes __getURL's validation; with d the whole hours between the run
\* instant and floor(now to the hour) + lead, e = d when d <= 78, otherwise
\* e = min(180, 3 * floor(d / 3)): never above d, and at most 2 below it
\* under the clamp.
C3_HorizonValidAndRoundedDown ==
    Resolved =>
        LET d == HoursToTarget
            e == fetch.hours.v
        IN  /\ fetch.hours.t = "int"
            /\ 0 <= e /\ e <= 180
            /\ e > 78 => e % 3 = 0
            /\ d <= 78 => e = d
            /\ d > 78 => e = (IF 3 * (d \div 3) > 180 THEN 180 ELSE 3 * (d \div 3))
            /\ e <= d
            /\ d <= 180 => d - e <= 2
            /\ Len(calls) = 1
            /\ calls[1].hours = fetch.hours
            /\ fetch.result.err # "Invalid forecast hour."

\* A difference of 80 hours was rounded down by 2, to the horizon 78, and
\* handed to the collaborator.
C3_Witness ==
    /\ Resolved
    /\ HoursToTarget = 80
    /\ fetch.hours.v = 78
    /\ Len(calls) = 1

\* C4, as stated: the horizon handed on is never larger than the lead that
\* was asked for.
C4_HorizonAtMostLead == Resolved => fetch.hours.v <= fetch.arg.v

\* C4, amended: the horizon is counted from the run, not from now: the
\* instant it stands for, run + horizon, is never later than the target
\* floor(now to the hour) + lead, and under the clamp (d <= 180) the horizon
\* is larger than the lead, by 1 hour at least.
C4_ValidInstantAtMostTarget ==
    Resolved =>
        /\ fetch.downloadTime + fetch.hours.v * 60
              <= HourFloor(fetch.nowTime) + fetch.arg.v * 60
        /\ HoursToTarget <= 180 => fetch.hours.v >= fetch.arg.v + 1

\* A lead of 6 hours resolved to a horizon of 9 or more.
C4_Witness ==
    /\ Resolved
    /\ fetch.arg.v = 6
    /\ fetch.hours.v >= 9
    /\ fetch.pc = "collab"

\* C10: downloadForecastFromNow resolves the run and the target from one
\* instant: the unquantized difference d has lead + 3 <= d <= lead + 8, and
\* the run is the governing run of the instant whose hour floor gives the
\* target.
C10_OneConsistentInstant ==
    Resolved =>
        /\ fetch.forecastDiff >= fetch.arg.v + 3
        /\ fetch.forecastDiff <= fetch.arg.v + 8
        /\ fetch.timeIdentifier = GetDownloadTimeInfo(fetch.nowTime).id

\* The horizons the claim C5 lets through.
RuntimeHorizonAccepted(h) ==
    h.t = "int" /\ h.v >= 1 /\ h.v <= 180 /\ (h.v <= 78 \/ h.v % 3 = 0)

\* C5: downloadForecastFromRuntime(h) fails with "Requested forecast hour
\* invalid." and never invokes the collaborator when h is no integer of
\* 1..180 or h > 78 is no multiple of 3 (h = 0 included); otherwise it
\* invokes the collaborator once, with the run identifier, h as given and
\* the URL of every catalog variable, and returns what the collaborator
\* returned or raised, without a second invocation.
C5_RuntimeValidatesThenCallsOnce ==
    (fetch.kind = "runtime" /\ fetch.pc # "idle") =>
        IF RuntimeHorizonAccepted(fetch.arg)
        THEN /\ Len(calls) = 1
             /\ calls[1].timeIdentifier = fetch.timeIdentifier
             /\ calls[1].hours = fetch.arg
             /\ DOMAIN calls[1].downloadURLs = CatalogIDs
             /\ \A v \in CatalogIDs :
                   LET u == calls[1].downloadURLs[v]
                   IN  /\ SubSeq(u, 1, Len(URL_BASE)) = URL_BASE
                       /\ EndsWith(u, <<"_">> \o fetch.timeIdentifier \o <<"_">>
                                      \o FormatZeroPadded(fetch.arg.v, 3)
                                      \o GRIB2_BZ2)
             /\ fetch.pc = "done" =>
                   \/ fetch.result = Ok(GetICONDBPath(fetch.timeIdentifier))
                   \/ fetch.result = Raise("DownloadOrCompileFailure")
        ELSE /\ fetch.pc = "done"
             /\ fetch.result = Raise("Requested forecast hour invalid.")
             /\ calls = <<>>
             /\ files = <<>>

\* The collaborator was invoked for the horizon 81 and failed; it was not
\* invoked again.
C5_Witness ==
    /\ fetch.kind = "runtime"
    /\ fetch.arg = IntHours(81)
    /\ fetch.pc = "done"
    /\ fetch.result = Raise("DownloadOrCompileFailure")
    /\ Len(calls) = 1

----------------------------------------------------------------------------
(* Archive index and retention janitor.                                     *)

\* filterDirWithSuffix(directory, suffixes) of filesystem.py: the files of
\* the directory whose names end in one of the suffixes.
FilterDirWithSuffix(dir, suffixes) ==
    {n \in DOMAIN dir :
        dir[n].kind = "file" /\ \E s \in suffixes : EndsWith(n, s)}

\* timeIdentifierToDatetime(timeIdentifier): the datetime the ten digits
\* spell, or an exception.
TimeIdentifierToDatetime(id) ==
    IF /\ Len(id) = 10
       /\ \A i \in 1..10 : IsDigit(id[i])
       /\ ValidDate(NumberAt(id, 1, 4), NumberAt(id, 5, 2),
                    NumberAt(id, 7, 2), NumberAt(id, 9, 2))
    THEN Ok(MakeDatetime(NumberAt(id, 1, 4), NumberAt(id, 5, 2),
                         NumberAt(id, 7, 2), NumberAt(id, 9, 2)))
    ELSE Raise("ValueError")

\* The least position of a set of positions, 0 when there is none: re.search
\* returns the leftmost match.
Leftmost(positions) ==
    IF positions = {} THEN 0
    ELSE CHOOSE i \in positions : \A j \in positions : i <= j

\* re.search("([0-9]{10})_[0-9]{3}", filename): where the match starts.
SearchRunAndHorizon(filename) ==
    Leftmost({i \in 1..Len(filename) :
                /\ DigitsAt(filename, i, 10)
                /\ StartsAt(filename, i + 10, <<"_">>)
                /\ DigitsAt(filename, i + 11, 3)})

\* re.search("forecast-([0-9]{10})", name): where the match starts.
SearchForecast(filename) ==
    Leftmost({i \in 1..Len(filename) :
                /\ StartsAt(filename, i, FORECAST_DASH)
                /\ DigitsAt(filename, i + Len(FORECAST_DASH), 10)})

\* match.group(1) of the two searches, the match starting at position i > 0.
RunAndHorizonGroup(filename, i) == SubSeq(filename, i, i + 9)

ForecastGroup(filename, i) ==
    SubSeq(filename, i + Len(FORECAST_DASH), i + Len(FORECAST_DASH) + 9)

\* A comparison that takes an instant for older than itself.
IsOlderOrSame(a, b) == b - a >= 0

\* isOlderThan = lambda a,b: (b-a).total_seconds() > 0
IsOlderThan(a, b) == b - a > 0

\* The first loop of cleanUp: the raw files it puts on delList, the clock
\* reading t.
ScanGribArchives(dir, t, archiveLife) ==
    LET deleteArchiveWithRunTimeBefore == t - HoursDelta(archiveLife)
    IN  {path \in FilterDirWithSuffix(dir, {GRB2, GRIB2, GRIB2_BZ2}) :
            LET i == SearchRunAndHorizon(path)
            IN  IF i = 0 THEN TRUE
                ELSE LET runTime == TimeIdentifierToDatetime(
                                        RunAndHorizonGroup(path, i))
                     IN  IF ~runTime.ok THEN TRUE
                         ELSE IsOlderThan(runTime.val,
                                          deleteArchiveWithRunTimeBefore)}

\* The second loop of cleanUp: the compiled files it puts on delList.
ScanICONDBFiles(dir, t) ==
    LET deleteICONDBWithForecastTimeBefore == t - HoursDelta(1)
    IN  {path \in FilterDirWithSuffix(dir,
                      {ICONDB, ICONDB_TEMP, ICONDB_CHECKSUM}) :
            LET i == SearchForecast(path)
            IN  IF i = 0 THEN TRUE
                ELSE LET runTime == TimeIdentifierToDatetime(
                                        ForecastGroup(path, i))
                     IN  IF ~runTime.ok THEN TRUE
                         ELSE IsOlderThan(runTime.val,
                                          deleteICONDBWithForecastTimeBefore)}

\* cleanUp, run to its end with nothing else touching the directory.
CleanUp ==
    /\ jan.pc = "idle"
    /\ LET raw == ScanGribArchives(files, now, config.archiveLife)
           db  == ScanICONDBFiles(files, now)
       IN  /\ files' = Remove(files, raw \cup db)
           /\ jan' = [pc |-> "idle", delList |-> <<raw, db>>,
                      scanInodes |-> inodes]
    /\ UNCHANGED <<now, ticks, config, loc, fetch, calls, inodes, listing>>

\* cleanUp up to the end of its two scans (lines 160-205).
CleanScan ==
    /\ jan.pc \in {"idle", "raised"}
    /\ LET raw == ScanGribArchives(files, now, config.archiveLife)
           db  == ScanICONDBFiles(files, now)
       IN  jan' = [pc |-> IF raw \cup db = {} THEN "idle" ELSE "scanned",
                   delList |-> <<raw, db>>, scanInodes |-> inodes]
    /\ UNCHANGED <<now, ticks, config, loc, fetch, calls, files, inodes, listing>>

\* One turn of the loop of lines 207-209: os.unlink of the next path of
\* delList, the raw files first; a path that is gone raises and ends cleanUp.
CleanUnlink ==
    /\ jan.pc = "scanned"
    /\ \E path \in (IF jan.delList[1] # {} THEN jan.delList[1]
                    ELSE jan.delList[2]) :
          LET rest == <<jan.delList[1] \ {path}, jan.delList[2] \ {path}>>
          IN  IF path \in DOMAIN files
              THEN /\ files' = Remove(files, {path})
                   /\ jan' = [jan EXCEPT
                                !.pc = IF rest = <<{}, {}>> THEN "idle"
                                       ELSE "scanned",
                                !.delList = rest]
              ELSE /\ files' = files
                   /\ jan' = [jan EXCEPT !.pc = "raised"]
    /\ UNCHANGED <<now, ticks, config, loc, fetch, calls, inodes, listing>>

\* A filter that forgets os.path.isfile.
ListedNamesAnyKind(dir) == {name \in DOMAIN dir : EndsWith(name, ICONDB)}

\* The filter of listDatabase, lines 138-139.
ListedNames(dir) ==
    {name \in DOMAIN dir : EndsWith(name, ICONDB) /\ dir[name].kind = "file"}

\* The time identifier listDatabase reads from a name, <<>> when it skips it.
ListedIdentifier(name) ==
    LET i == SearchForecast(name)
    IN  IF i = 0 THEN <<>>
        ELSE IF TimeIdentifierToDatetime(ForecastGroup(name, i)).ok
        THEN ForecastGroup(name, i)
        ELSE <<>>

\* listDatabase: os.listdir gives the names in any order, and the last name
\* of an identifier is the one that stays.
ListDatabase ==
    /\ LET named == {n \in ListedNames(files) : ListedIdentifier(n) # <<>>}
           keys  == {ListedIdentifier(n) : n \in named}
       IN  \E last \in [keys -> named] :
              /\ \A k \in keys : ListedIdentifier(last[k]) = k
              /\ listing' = [k \in keys |->
                               [path |-> last[k],
                                forecasttime |-> TimeIdentifierToDatetime(k).val]]
    /\ UNCHANGED <<now, ticks, config, loc, fetch, calls, files, inodes, jan>>

----------------------------------------------------------------------------
(* listDatabase and cleanUp on a directory of files of every sort.          *)

\* 2023123100_006.grib2
RAW_OLD ==
    <<"2","0","2","3","1","2","3","1","0","0","_","0","0","6",".","g","r","i","b","2">>

\* x_2024010100_006.grb2
RAW_AT_CUTOFF ==
    <<"x","_","2","0","2","4","0","1","0","1","0","0","_","0","0","6",".","g","r","b","2">>

\* data.grib2.bz2
RAW_NO_ID ==
    <<"d","a","t","a",".","g","r","i","b","2",".","b","z","2">>

\* 2024139900_006.grib2
RAW_BAD_MONTH ==
    <<"2","0","2","4","1","3","9","9","0","0","_","0","0","6",".","g","r","i","b","2">>

\* forecast-2024010123.icondb
DB_ONE_HOUR ==
    <<"f","o","r","e","c","a","s","t","-","2","0","2","4","0","1","0","1","2","3",".","i","c","o","n","d","b">>

\* forecast-2024010100.icondb
DB_OLD ==
    <<"f","o","r","e","c","a","s","t","-","2","0","2","4","0","1","0","1","0","0",".","i","c","o","n","d","b">>

\* forecast-abcdefghij.icondb
DB_MALFORMED ==
    <<"f","o","r","e","c","a","s","t","-","a","b","c","d","e","f","g","h","i","j",".","i","c","o","n","d","b">>

\* notes.txt
NOTES ==
    <<"n","o","t","e","s",".","t","x","t">>

\* forecast-2024019900-forecast-2024010123.icondb
DB_TWO_IDS ==
    <<"f","o","r","e","c","a","s","t","-","2","0","2","4","0","1","9","9","0","0","-","f","o","r","e","c","a","s","t","-","2","0","2","4","0","1","0","1","2","3",".","i","c","o","n","d","b">>

\* forecast-2024010123.icondb.temp
DB_TEMP ==
    <<"f","o","r","e","c","a","s","t","-","2","0","2","4","0","1","0","1","2","3",".","i","c","o","n","d","b",".","t","e","m","p">>

\* forecast-2024010200.icondb.checksum
DB_CHECKSUM ==
    <<"f","o","r","e","c","a","s","t","-","2","0","2","4","0","1","0","2","0","0",".","i","c","o","n","d","b",".","c","h","e","c","k","s","u","m">>

\* old-forecast-2024010123.icondb
DB_COPY ==
    <<"o","l","d","-","f","o","r","e","c","a","s","t","-","2","0","2","4","0","1","0","1","2","3",".","i","c","o","n","d","b">>

\* forecast-2024010118.icondb
DB_DIR ==
    <<"f","o","r","e","c","a","s","t","-","2","0","2","4","0","1","0","1","1","8",".","i","c","o","n","d","b">>

MaxFiles == 3

MaxJanitorTicks == 1

Universe ==
    [n \in {RAW_OLD, RAW_AT_CUTOFF, RAW_NO_ID, RAW_BAD_MONTH, DB_ONE_HOUR,
            DB_OLD, DB_MALFORMED, NOTES, DB_TWO_IDS, DB_TEMP, DB_CHECKSUM,
            DB_COPY, DB_DIR} |->
        IF n = DB_DIR THEN Directory(0) ELSE RegularFile(0, FALSE)]

ArchiveLifeInputs == {24, 48}

InitJanitor ==
    /\ now = MakeDatetime(2024, 1, 2, 0)
    /\ ticks = 0
    /\ config \in {[archiveLife |-> a, checksumKey |-> "key"] :
                      a \in ArchiveLifeInputs}
    /\ loc = [op |-> "none", var |-> UnknownID, run |-> <<>>,
              hours |-> IntHours(0), out |-> Raise("")]
    /\ fetch = IdleFetch(0)
    /\ calls = <<>>
    /\ \E present \in SUBSET DOMAIN Universe :
          /\ Cardinality(present) <= MaxFiles
          /\ files = [n \in present |-> Universe[n]]
    /\ inodes = 1
    /\ jan = IdleJan
    /\ listing = <<>>

NextJanitor ==
    \/ TickUpTo(MaxJanitorTicks)
    \/ CleanUp
    \/ ListDatabase

SpecJanitor == InitJanitor /\ [][NextJanitor]_vars

RawSuffixes == {GRB2, GRIB2, GRIB2_BZ2}

CompiledSuffixes == {ICONDB, ICONDB_TEMP, ICONDB_CHECKSUM}

HasSuffix(n, suffixes) == \E s \in suffixes : EndsWith(n, s)

\* The files of dir that the claim C6 has cleanUp delete at the instant t.
ToBeDeleted(dir, t, archiveLife) ==
    {n \in DOMAIN dir :
        /\ dir[n].kind = "file"
        /\ \/ /\ HasSuffix(n, RawSuffixes)
              /\ LET i  == SearchRunAndHorizon(n)
                     id == RunAndHorizonGroup(n, i)
                 IN  \/ i = 0
                     \/ ~TimeIdentifierToDatetime(id).ok
                     \/ TimeIdentifierToDatetime(id).val < t - archiveLife * 60
           \/ /\ HasSuffix(n, CompiledSuffixes)
              /\ LET i  == SearchForecast(n)
                     id == ForecastGroup(n, i)
                 IN  \/ i = 0
                     \/ ~TimeIdentifierToDatetime(id).ok
                     \/ TimeIdentifierToDatetime(id).val < t - 60}

\* C6: cleanUp run at the instant now deletes, of the files present, exactly
\* (a) the raw files (.grb2, .grib2, .grib2.bz2) whose <run>_<3 digits> run
\* time is strictly earlier than now - archiveLife hours, (b) the compiled
\* files (.icondb, .icondb.temp, .icondb.checksum) whose forecast-<run> run
\* time is strictly earlier than now - 1 hour, and (c) the files of either
\* class with no identifier or one that spells no datetime; a file at or
\* after its cutoff stays, and so does every other entry, unchanged.
C6_DeletesExactlyTheStale ==
    [][CleanUp =>
          LET gone == ToBeDeleted(files, now, config.archiveLife)
          IN  /\ DOMAIN files' = (DOMAIN files) \ gone
              /\ \A n \in DOMAIN files' : files'[n] = files[n]
              /\ jan'.delList[1] \cup jan'.delList[2] = gone]_vars

\* At 2024-01-02T00:00 cleanUp has deleted the file with the malformed
\* identifier and kept the compiled archive of exactly one hour ago and the
\* file of neither class.
C6_Witness ==
    /\ now = MakeDatetime(2024, 1, 2, 0)
    /\ jan.delList = <<{}, {DB_MALFORMED}>>
    /\ DOMAIN files = {DB_ONE_HOUR, NOTES}

\* The identifiers forecast-<ten digits> that stand anywhere in a name and
\* spell a datetime.
IdentifiersAnywhere(name) ==
    {ForecastGroup(name, i) : i \in
        {j \in 1..Len(name) :
            /\ StartsAt(name, j, FORECAST_DASH)
            /\ DigitsAt(name, j + Len(FORECAST_DASH), 10)
            /\ TimeIdentifierToDatetime(ForecastGroup(name, j)).ok}}

\* The regular files of dir that end in .icondb.
ArchiveFiles(dir) ==
    {n \in DOMAIN dir : dir[n].kind = "file" /\ EndsWith(n, ICONDB)}

\* C7, as stated: the keys of listDatabase's result are exactly the
\* identifiers r such that a regular file ending in .icondb has a name that
\* contains forecast-<r>, r ten digits that spell a datetime; the path of a
\* key is a file that matched it; the directory is left as it was.
C7_KeysOfEveryOccurrence ==
    [][ListDatabase =>
          /\ DOMAIN listing' =
                UNION {IdentifiersAnywhere(n) : n \in ArchiveFiles(files)}
          /\ \A k \in DOMAIN listing' :
                /\ listing'[k].path \in ArchiveFiles(files)
                /\ k \in IdentifiersAnywhere(listing'[k].path)
          /\ files' = files]_vars

\* C7, amended: the key of a file is the identifier of the leftmost
\* forecast-<ten digits> of its name only: a file whose leftmost identifier
\* spells no datetime is skipped, whatever follows in the name.
C7_KeysOfLeftmostOccurrence ==
    [][ListDatabase =>
          LET leftmost(n) == ForecastGroup(n, SearchForecast(n))
              matched == {n \in ArchiveFiles(files) :
                            /\ SearchForecast(n) > 0
                            /\ leftmost(n) \in IdentifiersAnywhere(n)}
          IN  /\ DOMAIN listing' = {leftmost(n) : n \in matched}
              /\ \A k \in DOMAIN listing' :
                    /\ listing'[k].path \in matched
                    /\ leftmost(listing'[k].path) = k
              /\ files' = files]_vars

\* The directory holds an archive, a file with a malformed identifier and an
\* unrelated file, and the listing has the one key 2024010100.
C7_Witness ==
    /\ DOMAIN files = {DB_OLD, DB_MALFORMED, NOTES}
    /\ DOMAIN listing = {ForecastGroup(DB_OLD, 1)}
    /\ listing[ForecastGroup(DB_OLD, 1)].path = DB_OLD

----------------------------------------------------------------------------
(* Fetch operations and cleanUp on one directory, in any interleaving.      *)

MaxRaceTicks == 2

RaceHours == {IntHours(0), IntHours(6)}

RaceLeads == {6}

InitRace ==
    /\ now = MakeDatetime(2024, 1, 1, 6) + 30
    /\ ticks = 0
    /\ config = DefaultConfig
    /\ loc = [op |-> "none", var |-> UnknownID, run |-> <<>>,
              hours |-> IntHours(0), out |-> Raise("")]
    /\ fetch = IdleFetch(0)
    /\ calls = <<>>
    /\ files \in {[n \in {} |-> RegularFile(0, FALSE)],
                  [n \in {DB_OLD} |-> RegularFile(0, FALSE)]}
    /\ inodes = 1
    /\ jan = IdleJan
    /\ listing = <<>>

NextRace ==
    \/ TickUpTo(MaxRaceTicks)
    \/ \E h \in RaceHours : DownloadForecastFromRuntime(h)
    \/ \E lead \in RaceLeads : FromNowReadRun(lead)
    \/ FromNowResolve
    \/ CollabWriteTemp
    \/ CollabRename
    \/ CollabFail
    \/ FetchReturn
    \/ CleanScan
    \/ CleanUnlink

SpecRace == InitRace /\ [][NextRace]_vars

\* The paths cleanUp has still to unlink.
Pending == jan.delList[1] \cup jan.delList[2]

\* C8: whatever the interleaving of a fetch and a cleanUp, the scan of
\* cleanUp never puts a partially written file of the fetch on delList, and
\* cleanUp deletes no file that was created after its scan.
C8_ScanAndDeleteAreSafe ==
    [][/\ (jan' # jan /\ jan'.pc = "scanned" /\ jan.pc # "scanned")
            => \A p \in jan'.delList[1] \cup jan'.delList[2] :
                  ~files[p].partial
       /\ (jan' # jan /\ jan.pc = "scanned")
            => \A n \in (DOMAIN files) \ (DOMAIN files') :
                  files[n].ino < jan.scanInodes]_vars

\* C8, its second half alone.
C8_DeletesNothingNewer ==
    [][(jan' # jan /\ jan.pc = "scanned")
            => \A n \in (DOMAIN files) \ (DOMAIN files') :
                  files[n].ino < jan.scanInodes]_vars

\* The archives in dir that a fetch operation has put in place.
FetchedArchives(dir) ==
    {n \in DOMAIN dir :
        dir[n].ino >= 1 /\ ~dir[n].partial /\ EndsWith(n, ICONDB)}

====
